---- MODULE Spec2Model ----
(***************************************************************************)
(* Model of did/cli.py: the Options parser (parse, time_period) and main,  *)
(* the loop that gathers the stats of every user and maps failures to      *)
(* exit codes.                                                             *)
(*                                                                         *)
(* Dates are day numbers.  The collaborators of did.base and did.stats     *)
(* (Date, Config, UserStats, utils.split) are not part of cli.py; they are *)
(* modelled from their documented behaviour and only through the calls     *)
(* cli.py makes.                                                           *)
(***************************************************************************)
EXTENDS Integers, Sequences, FiniteSets, TLC

VARIABLES
    pc,             \* position of the control flow of main / parse
    cmdline,        \* how optparse takes the command line: ok, rejected, help
    arg,            \* positional arguments left by parse_args (set of tokens)
    since_in,       \* value of --since (NoneVal when not given)
    until_in,       \* value of --until (NoneVal when not given)
    emails_in,      \* values of the repeated --email option
    config,         \* what did.base.Config().email does
    selected,       \* plugin enable flags set on the command line
    merge, total, brief,  \* display mode flags
    today,          \* the current date
    opt,            \* the options object parse builds
    users,          \* main: the list of users
    i,              \* main: position of the for loop over users
    gathered_stats, \* main: list of the user stats gathered
    team_stats,     \* main: what the team stats object has merged
    log,            \* output and collaborator calls, in order
    exc,            \* the exception in flight or that left main
    exit_code       \* argument of sys.exit (NoExit when not called)

vars == <<pc, cmdline, arg, since_in, until_in, emails_in, config, selected, merge,
          total, brief, today, opt, users, i, gathered_stats, team_stats,
          log, exc, exit_code>>

inputs == <<cmdline, arg, since_in, until_in, emails_in, config, selected, merge,
            total, brief, today>>

-----------------------------------------------------------------------------
(* Bounds of the model *)

\* dates given on the command line lie within DateSpan days of the current dates
DateSpan == 1
\* the current date ranges over FirstDay .. FirstDay + TodaySpan
TodaySpan == 1
\* at most MaxUsers email addresses in total
MaxUsers == 2

-----------------------------------------------------------------------------
(* Values *)

\* optparse leaves an option that was not given at None
NoneVal == -1
\* an option given with an empty string, which Python takes as false
EmptyString == -2
\* sys.exit was not called
NoExit == -1
\* Date("1993-01-01"), day 0 of the calendar of the model
Epoch == 0
\* the earliest current date of the model: the last day of a week
FirstDay == 1007

Tokens == {"today", "year", "quarter", "month", "week", "last"}

Addresses == {"a@x.com", "b@y.com"}

\* sample_stats.stats: the groups, each with its dest and the dests of its stats
StatsGroups ==
    << [dest |-> "g1", stats |-> <<"s1", "s2">>],
       [dest |-> "g2", stats |-> << >>] >>

EnableFlags == {"g1", "g2", "s1", "s2"}

\* parser.parse_args: a command line it accepts, one it rejects (unknown
\* option, option without its value, --width not an integer), or --help
CommandLines == {"ok", "rejected", "help"}

\* the status optparse exits with: parser.error is sys.exit(2), --help is
\* sys.exit(0)
UsageError == 2
HelpExit == 0

NoException == [type |-> "none", a |-> 0, b |-> 0]

NoOptions == [all |-> FALSE, emails |-> << >>, since |-> NoneVal,
              until |-> NoneVal, period |-> "none"]

-----------------------------------------------------------------------------
(* did.base.Date: a calendar of 7-day weeks, 28-day months, 84-day         *)
(* quarters and 336-day years, every period given as [first day, first day *)
(* of the next period)                                                     *)

WeekLen == 7
MonthLen == 28
QuarterLen == 84
YearLen == 336

period_start(day, len) == (day \div len) * len

this_period(day, len) ==
    [since |-> period_start(day, len), until |-> period_start(day, len) + len]

last_period(day, len) ==
    [since |-> period_start(day, len) - len, until |-> period_start(day, len)]

-----------------------------------------------------------------------------
(* Options.time_period: the period the positional arguments ask for *)

labelled(range, label) ==
    [since |-> range.since, until |-> range.until, period |-> label]

\* the branches after "today": year, quarter, month, else week
named_period(arg_, today_) ==
    IF "year" \in arg_
    THEN IF "last" \in arg_
         THEN labelled(last_period(today_, YearLen), "the last fiscal year")
         ELSE labelled(this_period(today_, YearLen), "this fiscal year")
    ELSE IF "quarter" \in arg_
    THEN IF "last" \in arg_
         THEN labelled(last_period(today_, QuarterLen), "the last quarter")
         ELSE labelled(this_period(today_, QuarterLen), "this quarter")
    ELSE IF "month" \in arg_
    THEN IF "last" \in arg_
         THEN labelled(last_period(today_, MonthLen), "the last month")
         ELSE labelled(this_period(today_, MonthLen), "this month")
    ELSE IF "last" \in arg_
         THEN labelled(last_period(today_, WeekLen), "the last week")
         ELSE labelled(this_period(today_, WeekLen), "this week")

\* time_period with "last" honoured for today as for the other units
time_period_last_today(arg_, today_) ==
    IF "today" \in arg_
    THEN IF "last" \in arg_
         THEN [since |-> today_ - 1, until |-> today_, period |-> "today"]
         ELSE [since |-> today_, until |-> today_ + 1, period |-> "today"]
    ELSE named_period(arg_, today_)

time_period(arg_, today_) ==
    IF "today" \in arg_
    THEN [since |-> today_, until |-> today_ + 1, period |-> "today"]
    ELSE named_period(arg_, today_)

-----------------------------------------------------------------------------
(* Options.parse *)

\* opt.all: no stat of any group has its own flag or the flag of its group set
compute_all(sel) ==
    ~ \E g \in 1..Len(StatsGroups) :
        \E s \in 1..Len(StatsGroups[g].stats) :
            StatsGroups[g].stats[s] \in sel \/ StatsGroups[g].dest \in sel

\* utils.split: every value is split on commas, the pieces kept in order.
\* A value is modelled as the sequence of the addresses it holds.
RECURSIVE split(_)
split(values) ==
    IF values = << >> THEN << >>
    ELSE Head(values) \o split(Tail(values))

\* Python's  x or default  for an option value
or_default(value, default) ==
    IF value = NoneVal \/ value = EmptyString THEN default ELSE value

\* date_range without the day that makes until exclusive
date_range_inclusive(since_, until_, arg_, today_) ==
    IF since_ = NoneVal /\ until_ = NoneVal
    THEN time_period(arg_, today_)
    ELSE [since  |-> or_default(since_, Epoch),
          until  |-> or_default(until_, today_),
          period |-> "given date range"]

\* the time period handling of parse: since, until and the period label
date_range(since_, until_, arg_, today_) ==
    IF since_ = NoneVal /\ until_ = NoneVal
    THEN time_period(arg_, today_)
    ELSE [since  |-> or_default(since_, Epoch),
          until  |-> or_default(until_, today_) + 1,
          period |-> "given date range"]

\* valid_range letting an empty range through
valid_range_or_equal(since_, until_) == since_ <= until_

\* the validation of the date range: parse raises unless it holds
valid_range(since_, until_) == since_ < until_

Event(ev, what, a, b) == [ev |-> ev, arg |-> what, a |-> a, b |-> b]

Raise(type, a, b) ==
    /\ pc' = "raised"
    /\ exc' = [type |-> type, a |-> a, b |-> b]

\* the emails parse starts from: the command line, else the configuration
uses_config(emails_) == emails_ = << >>

\* parse_args leaves through sys.exit: the usage is printed and SystemExit
\* carries the status
ParseArgsExits ==
    LET status == IF cmdline = "help" THEN HelpExit ELSE UsageError
    IN  /\ Raise("SystemExit", status, 0)
        /\ exit_code' = status
        /\ log' = Append(log, Event("usage", cmdline, status, 0))
        /\ UNCHANGED opt

\* parse once parse_args has returned opt and arg
ParseOptions ==
    IF uses_config(emails_in) /\ config.raises # "none"
    THEN /\ Raise(config.raises, 0, 0)
         /\ UNCHANGED <<opt, log>>
    ELSE LET emails == split(IF uses_config(emails_in)
                             THEN config.email ELSE emails_in)
             r == date_range(since_in, until_in, arg, today)
         IN  IF ~ valid_range(r.since, r.until)
             THEN /\ Raise("RuntimeError", r.since, r.until - 1)
                  /\ UNCHANGED <<opt, log>>
             ELSE /\ opt' = [all    |-> compute_all(selected),
                             emails |-> emails,
                             since  |-> r.since,
                             until  |-> r.until,
                             period |-> r.period]
                  /\ log' = Append(log,
                              Event("print", r.period, r.since, r.until - 1))
                  /\ pc' = "parsed"
                  /\ UNCHANGED exc

Parse ==
    /\ pc = "start"
    /\ UNCHANGED <<inputs, users, i, gathered_stats, team_stats>>
    /\ IF cmdline # "ok"
       THEN ParseArgsExits
       ELSE ParseOptions /\ UNCHANGED exit_code

-----------------------------------------------------------------------------
(* Inputs *)

Todays == FirstDay .. (FirstDay + TodaySpan)

GivenDates == (FirstDay - DateSpan) .. (FirstDay + TodaySpan + DateSpan)

DateInputs == {NoneVal, EmptyString} \cup GivenDates

\* one --email value: one address, or several joined by commas
EmailValues ==
    UNION { [1..n -> Addresses] : n \in 1..MaxUsers }

total_len(values) == Len(split(values))

EmailInputs ==
    { v \in UNION { [1..n -> EmailValues] : n \in 0..MaxUsers } :
        total_len(v) <= MaxUsers }

\* Config().email: an email list, possibly empty, or a failure
ConfigInputs ==
    { [raises |-> "none", email |-> v] :
        v \in { w \in EmailInputs : Len(w) <= 1 } }
    \cup { [raises |-> t, email |-> << >>] :
        t \in {"NoSectionError", "ConfigError"} }

InitState ==
    /\ pc = "start"
    /\ opt = NoOptions
    /\ users = << >>
    /\ i = 0
    /\ gathered_stats = << >>
    /\ team_stats = << >>
    /\ log = << >>
    /\ exc = NoException
    /\ exit_code = NoExit

\* Options.parse on its own: every period, date and flag selection
InitParse ==
    /\ InitState
    /\ cmdline \in CommandLines
    /\ arg \in SUBSET Tokens
    /\ since_in \in DateInputs
    /\ until_in \in DateInputs
    /\ selected \in SUBSET EnableFlags
    /\ today \in Todays
    /\ emails_in = << <<"a@x.com">> >>
    /\ config = [raises |-> "none", email |-> << >>]
    /\ merge = FALSE /\ total = FALSE /\ brief = FALSE

NextParse == Parse

SpecParse == InitParse /\ [][NextParse]_vars

-----------------------------------------------------------------------------
(* main *)

\* what a collaborator called by main may raise
Failures == {"ConfigError", "ReportError", "GSSError", "NoSectionError",
             "RuntimeError"}

\* BuildUsers without the test for an empty list
BuildUsers_unchecked ==
    /\ pc = "parsed"
    /\ gathered_stats' = << >>
    /\ users' = opt.emails
    /\ pc' = "team"
    /\ UNCHANGED <<inputs, opt, i, team_stats, log, exc, exit_code>>

\* users = [User(email) ...]; fails when there is none
BuildUsers ==
    /\ pc = "parsed"
    /\ gathered_stats' = << >>
    /\ users' = opt.emails
    /\ IF users' = << >>
       THEN Raise("ConfigError", 0, 0)
       ELSE pc' = "team" /\ UNCHANGED exc
    /\ UNCHANGED <<inputs, opt, i, team_stats, log, exit_code>>

\* PrepareTeam without the header of the merged report
PrepareTeam_no_header ==
    /\ pc = "team"
    /\ team_stats' = << >>
    /\ log' = Append(log, Event("new", "team", 0, 0))
    /\ i' = 1
    /\ pc' = "loop"
    /\ UNCHANGED <<inputs, opt, users, gathered_stats, exc, exit_code>>

\* team_stats = UserStats(options); the header of the merged report
PrepareTeam ==
    /\ pc = "team"
    /\ team_stats' = << >>
    /\ log' = log \o <<Event("new", "team", 0, 0)>>
                  \o (IF merge
                      THEN <<Event("header", "Total Report", 0, 0),
                             Event("item", "Users", Len(users), 0)>>
                      ELSE << >>)
    /\ i' = 1
    /\ pc' = "loop"
    /\ UNCHANGED <<inputs, opt, users, gathered_stats, exc, exit_code>>

\* the line of a user: an item of level 1 when merging, a header otherwise
EmitUser ==
    /\ pc = "loop"
    /\ i <= Len(users)
    /\ log' = Append(log, IF merge THEN Event("item", users[i], i, 1)
                                   ELSE Event("header", users[i], i, 0))
    /\ pc' = "create"
    /\ UNCHANGED <<inputs, opt, users, i, gathered_stats, team_stats, exc,
                   exit_code>>

\* user_stats = UserStats(user, options)
CreateSession ==
    /\ pc = "create"
    /\ log' = Append(log, Event("new", users[i], i, 0))
    /\ pc' = "check"
    /\ UNCHANGED <<inputs, opt, users, i, gathered_stats, team_stats, exc,
                   exit_code>>

\* user_stats.check() returns
CheckReturns ==
    /\ pc = "check"
    /\ log' = Append(log, Event("check", users[i], i, 0))
    /\ pc' = "merge"
    /\ UNCHANGED <<inputs, opt, users, i, gathered_stats, team_stats, exc,
                   exit_code>>

\* user_stats.check() raises
CheckRaises ==
    /\ pc = "check"
    /\ \E type \in Failures : Raise(type, 0, 0)
    /\ UNCHANGED <<inputs, opt, users, i, gathered_stats, team_stats, log,
                   exit_code>>

\* team_stats.merge(user_stats)
MergeSession ==
    /\ pc = "merge"
    /\ team_stats' = Append(team_stats, i)
    /\ log' = Append(log, Event("merge", users[i], i, 0))
    /\ pc' = "append"
    /\ UNCHANGED <<inputs, opt, users, i, gathered_stats, exc, exit_code>>

\* AppendSession putting the session first in the list
AppendSession_front ==
    /\ pc = "append"
    /\ gathered_stats' = <<users[i]>> \o gathered_stats
    /\ log' = Append(log, Event("append", users[i], i, 0))
    /\ i' = i + 1
    /\ pc' = "loop"
    /\ UNCHANGED <<inputs, opt, users, team_stats, exc, exit_code>>

\* gathered_stats.append(user_stats), and on to the next user
AppendSession ==
    /\ pc = "append"
    /\ gathered_stats' = Append(gathered_stats, users[i])
    /\ log' = Append(log, Event("append", users[i], i, 0))
    /\ i' = i + 1
    /\ pc' = "loop"
    /\ UNCHANGED <<inputs, opt, users, team_stats, exc, exit_code>>

\* the merged team report, after the loop
Display ==
    /\ pc = "loop"
    /\ i > Len(users)
    /\ log' = log \o (IF merge \/ total
                      THEN (IF total
                            THEN <<Event("header", "Total Report", 0, 0)>>
                            ELSE << >>)
                           \o <<Event("show", "team", 0, 0)>>
                      ELSE << >>)
    /\ pc' = "return"
    /\ UNCHANGED <<inputs, opt, users, i, gathered_stats, team_stats, exc,
                   exit_code>>

\* return gathered_stats, team_stats
Return ==
    /\ pc = "return"
    /\ pc' = "returned"
    /\ UNCHANGED <<inputs, opt, users, i, gathered_stats, team_stats, log,
                   exc, exit_code>>

\* except_clause with the first clause catching RuntimeError too
except_clause_wide(type) ==
    IF type \in {"ConfigError", "ReportError", "RuntimeError"} THEN 1
    ELSE IF type = "GSSError" THEN 2
    ELSE IF type = "NoSectionError" THEN 3
    ELSE 0

\* the except clause that takes an exception: 1, 2 or 3, and 0 for none
except_clause(type) ==
    IF type \in {"ConfigError", "ReportError"} THEN 1
    ELSE IF type = "GSSError" THEN 2
    ELSE IF type = "NoSectionError" THEN 3
    ELSE 0

\* except (ConfigError, ReportError): log the error, exit 1
ExceptConfigReport ==
    /\ pc = "raised"
    /\ except_clause(exc.type) = 1
    /\ log' = Append(log, Event("error", exc.type, 0, 0))
    /\ exit_code' = 1
    /\ pc' = "exited"
    /\ UNCHANGED <<inputs, opt, users, i, gathered_stats, team_stats, exc>>

\* ExceptGSSError exiting with the code of the first clause
ExceptGSSError_exit_one ==
    /\ pc = "raised"
    /\ except_clause(exc.type) = 2
    /\ log' = Append(log, Event("error", "Kerberos authentication failed", 0, 0))
    /\ exit_code' = 1
    /\ pc' = "exited"
    /\ UNCHANGED <<inputs, opt, users, i, gathered_stats, team_stats, exc>>

\* except kerberos.GSSError: log the kinit advice, exit 2
ExceptGSSError ==
    /\ pc = "raised"
    /\ except_clause(exc.type) = 2
    /\ log' = Append(log, Event("error", "Kerberos authentication failed", 0, 0))
    /\ exit_code' = 2
    /\ pc' = "exited"
    /\ UNCHANGED <<inputs, opt, users, i, gathered_stats, team_stats, exc>>

\* except ConfigParser.NoSectionError: log, show the example config, exit 3
ExceptNoSection ==
    /\ pc = "raised"
    /\ except_clause(exc.type) = 3
    /\ log' = log \o <<Event("error", exc.type, 0, 0),
                       Event("error", "No email provided", 0, 0),
                       Event("info", "Create at least a minimum config file", 0, 0),
                       Event("info", "example config", 0, 0)>>
    /\ exit_code' = 3
    /\ pc' = "exited"
    /\ UNCHANGED <<inputs, opt, users, i, gathered_stats, team_stats, exc>>

\* no except clause matches: the exception leaves main
Propagate ==
    /\ pc = "raised"
    /\ except_clause(exc.type) = 0
    /\ pc' = "propagated"
    /\ UNCHANGED <<inputs, opt, users, i, gathered_stats, team_stats, log,
                   exc, exit_code>>

\* the date options main is run with: none, a valid range, an inverted one
MainDates ==
    { <<NoneVal, NoneVal>>, <<FirstDay, NoneVal>>,
      <<FirstDay + TodaySpan + 1, NoneVal>> }

InitMain ==
    /\ InitState
    /\ cmdline \in CommandLines
    /\ arg \in {{}, {"last", "month"}}
    /\ \E d \in MainDates : since_in = d[1] /\ until_in = d[2]
    /\ selected = {"s1"}
    /\ today = FirstDay
    /\ emails_in \in EmailInputs
    /\ config \in ConfigInputs
    /\ merge \in BOOLEAN /\ total \in BOOLEAN /\ brief \in BOOLEAN

Next ==
    \/ Parse
    \/ BuildUsers
    \/ PrepareTeam
    \/ EmitUser
    \/ CreateSession
    \/ CheckReturns
    \/ CheckRaises
    \/ MergeSession
    \/ AppendSession
    \/ Display
    \/ Return
    \/ ExceptConfigReport
    \/ ExceptGSSError
    \/ ExceptNoSection
    \/ Propagate

Spec == InitMain /\ [][Next]_vars

-----------------------------------------------------------------------------
(* Properties of Options.time_period and Options.parse (SpecParse) *)

no_dates_given == since_in = NoneVal /\ until_in = NoneVal

resolved == [since |-> opt.since, until |-> opt.until]

has(token) == token \in arg

this_or_last(len) ==
    IF has("last") THEN last_period(today, len) ELSE this_period(today, len)

\* C1: the unit of the period is the first of today, year, quarter, month
\* among the tokens, week when there is none; the previous instance of the
\* unit iff last is a token; today is always the day [today, today + 1),
\* whatever the other tokens.
C1_PeriodByPriority ==
    (pc = "parsed" /\ no_dates_given) =>
        /\ has("today") =>
              /\ opt.since = today /\ opt.until = today + 1
              /\ opt.period = "today"
        /\ (~ has("today") /\ has("year")) =>
              /\ resolved = this_or_last(YearLen)
              /\ opt.period = (IF has("last") THEN "the last fiscal year"
                                              ELSE "this fiscal year")
        /\ (~ has("today") /\ ~ has("year") /\ has("quarter")) =>
              /\ resolved = this_or_last(QuarterLen)
              /\ opt.period = (IF has("last") THEN "the last quarter"
                                              ELSE "this quarter")
        /\ (~ has("today") /\ ~ has("year") /\ ~ has("quarter")
              /\ has("month")) =>
              /\ resolved = this_or_last(MonthLen)
              /\ opt.period = (IF has("last") THEN "the last month"
                                              ELSE "this month")
        /\ ({"today", "year", "quarter", "month"} \cap arg = {}) =>
              /\ resolved = this_or_last(WeekLen)
              /\ opt.period = (IF has("last") THEN "the last week"
                                              ELSE "this week")

C1_Witness ==
    /\ pc = "parsed" /\ no_dates_given
    /\ arg = {"last", "month", "quarter"}
    /\ opt.period = "the last quarter"
    /\ opt.until = period_start(today, QuarterLen)

\* C2: with --since or --until given the tokens are ignored: since is the
\* given date or 1993-01-01, until the given date or today, plus one day,
\* under the label "given date range"; with neither, since, until and label
\* are those of time_period, no day added.
C2_DateRange ==
    LET since == IF since_in \in GivenDates THEN since_in ELSE Epoch
        until == (IF until_in \in GivenDates THEN until_in ELSE today) + 1
        tp    == time_period(arg, today)
    IN  /\ (pc = "parsed" /\ ~ no_dates_given) =>
              /\ opt.since = since
              /\ opt.until = until
              /\ opt.period = "given date range"
        /\ (pc = "raised" /\ exc.type = "RuntimeError" /\ ~ no_dates_given) =>
              /\ exc.a = since
              /\ exc.b + 1 = until
        /\ (pc = "parsed" /\ no_dates_given) =>
              /\ opt.since = tp.since
              /\ opt.until = tp.until
              /\ opt.period = tp.period
        /\ (no_dates_given /\ cmdline = "ok") => pc # "raised"

C2_Witness ==
    /\ pc = "parsed"
    /\ since_in = NoneVal /\ until_in = FirstDay
    /\ arg = {"last", "year"}
    /\ opt.since = Epoch /\ opt.until = FirstDay + 1
    /\ opt.period = "given date range"

the_banner == Event("print", opt.period, opt.since, opt.until - 1)

\* C3: the options parse returns have since < until; when the resolved
\* since is not before until, parse raises the error naming since and
\* until - 1 day, returns no options and prints no banner.
C3_ValidRange ==
    LET r == date_range(since_in, until_in, arg, today)
    IN  /\ pc = "parsed" =>
              /\ opt.since < opt.until
              /\ log = <<the_banner>>
        /\ (pc # "start" /\ cmdline = "ok" /\ r.since >= r.until) =>
              /\ pc = "raised"
              /\ exc = [type |-> "RuntimeError", a |-> r.since,
                        b |-> r.until - 1]
              /\ opt = NoOptions
              /\ log = << >>
        /\ (pc = "raised" /\ cmdline = "ok") => r.since >= r.until

C3_Witness ==
    /\ pc = "raised"
    /\ exc.type = "RuntimeError"
    /\ since_in \in GivenDates /\ until_in \in GivenDates
    /\ exc.a = exc.b + 1
    /\ log = << >>

\* C4: all is true exactly when no enable flag of a stat or of a group is
\* set, for every selection of flags, groups without stats included.
C4_AllIffNothingSelected ==
    pc = "parsed" => (opt.all <=> selected = {})

-----------------------------------------------------------------------------
(* Properties of main (Spec) *)

Positions(P(_)) == { k \in 1..Len(log) : P(log[k]) }

\* an event of the loop over users: the line of a user or a call for them
IsUserEvent(e) == e.arg \in Addresses

IsLine(e) == e.ev \in {"header", "item"}

IsTotalHeader(e) == e = Event("header", "Total Report", 0, 0)

IsShow(e) == e.ev = "show"

\* a session created, data collected, or anything of the report printed
IsReport(e) == e.ev \in {"header", "item", "new", "check", "merge",
                         "append", "show"}

parse_returned == opt # NoOptions

\* C5: under merge the "Total Report" header and the "Users: N" item come
\* before anything of any user (its line, its session, its check), and the
\* line of every user is an item of level 1, not a header.
C5_MergeBannerFirst ==
    merge =>
        \A k \in Positions(IsUserEvent) :
            /\ \E h \in 1..(k - 2) :
                  /\ IsTotalHeader(log[h])
                  /\ log[h + 1] = Event("item", "Users", Len(users), 0)
            /\ IsLine(log[k]) => (log[k].ev = "item" /\ log[k].b = 1)

C5_Witness ==
    /\ merge /\ ~ total
    /\ pc = "returned"
    /\ Len(users) = 2
    /\ Cardinality(Positions(IsTotalHeader)) = 1

\* C6: after the loop the team stats are shown iff merge or total is set,
\* and whatever the two flags the "Total Report" header is printed at most
\* once.
C6_TotalHeaderOnce ==
    /\ pc = "returned" =>
          (Positions(IsShow) # {} <=> (merge \/ total))
    /\ Cardinality(Positions(IsTotalHeader)) <= 1

\* C7: when a check raises GSSError, for any user, main exits with 2 and
\* nothing of the report has been printed: no line of a user, no report
\* content, no Total Report.
C7_NoPartialOutput ==
    (pc = "exited" /\ exc.type = "GSSError") =>
        /\ exit_code = 2
        /\ Positions(IsReport) = {}

\* C7, amended: when the check of user i raises GSSError, main exits with
\* 2; what was printed before the failing call stays (the lines and reports
\* of the users before i, the line of user i), and nothing of the report
\* follows: user i is neither merged nor gathered, no later user has a line
\* or a session, the team stats are not shown, and the only "Total Report"
\* header is the one merge printed before the loop.
C7_ExitTwoReportCutShort ==
    (pc = "exited" /\ exc.type = "GSSError") =>
        /\ exit_code = 2
        /\ log[Len(log)].ev = "error"
        /\ \A k \in 1..(Len(log) - 1) : log[k].ev # "error"
        /\ Positions(IsShow) = {}
        /\ Cardinality(Positions(IsTotalHeader)) = (IF merge THEN 1 ELSE 0)
        /\ \A k \in Positions(IsUserEvent) :
              /\ log[k].a <= i
              /\ log[k].a = i => log[k].ev \in {"header", "item", "new"}
        /\ \E k \in Positions(IsUserEvent) : IsLine(log[k]) /\ log[k].a = i
        /\ Len(gathered_stats) = i - 1
        /\ Len(team_stats) = i - 1

C7_Witness ==
    /\ pc = "exited" /\ exc.type = "GSSError"
    /\ exit_code = 2
    /\ i = 2
    /\ merge /\ total

classified == {"ConfigError", "ReportError", "GSSError", "NoSectionError"}

example_config == Event("info", "example config", 0, 0)

\* C8: ConfigError and ReportError exit with 1, GSSError with 2,
\* NoSectionError with 3 after the example config is printed; any other
\* exception, the invalid date range of parse among them, leaves main with
\* no exit code; a run that completes returns and exits nowhere; every
\* failure is taken by exactly one branch.
C8_ExitCodes ==
    /\ pc = "exited" =>
          /\ exc.type \in classified
          /\ exit_code = (IF exc.type = "GSSError" THEN 2
                          ELSE IF exc.type = "NoSectionError" THEN 3 ELSE 1)
          /\ (exit_code = 3) <=> (Positions(LAMBDA e : e = example_config) # {})
    /\ pc = "propagated" =>
          /\ exc.type \notin classified
          /\ exit_code = NoExit
          /\ Positions(LAMBDA e : e.ev \in {"error", "info"}) = {}
    /\ pc = "returned" =>
          /\ exc = NoException
          /\ exit_code = NoExit
    /\ exit_code # NoExit => pc = "exited"
    /\ pc = "raised" =>
          Cardinality({ b \in 1..4 :
              \/ b = 1 /\ ENABLED ExceptConfigReport
              \/ b = 2 /\ ENABLED ExceptGSSError
              \/ b = 3 /\ ENABLED ExceptNoSection
              \/ b = 4 /\ ENABLED Propagate }) = 1
    /\ (pc = "raised" /\ exc.type = "RuntimeError") => ENABLED Propagate

\* C8, amended: ConfigError and ReportError exit with 1, GSSError with 2,
\* NoSectionError with 3 after the example config is printed; any other
\* exception leaves main uncaught and the except clauses produce no exit
\* code for it: the invalid date range of parse carries none, and the
\* SystemExit of parse_args carries the status of optparse itself, 2 for a
\* command line it rejects and 0 for --help; a run that completes returns
\* and exits nowhere; every failure is taken by exactly one branch.
C8_ExitCodesOfTheClauses ==
    /\ pc = "exited" =>
          /\ exc.type \in classified
          /\ exit_code = (IF exc.type = "GSSError" THEN 2
                          ELSE IF exc.type = "NoSectionError" THEN 3 ELSE 1)
          /\ (exit_code = 3) <=> (Positions(LAMBDA e : e = example_config) # {})
    /\ pc = "propagated" =>
          /\ exc.type \notin classified
          /\ Positions(LAMBDA e : e.ev \in {"error", "info"}) = {}
          /\ exc.type = "RuntimeError" => exit_code = NoExit
          /\ exc.type = "SystemExit" =>
                /\ cmdline # "ok" /\ ~ parse_returned
                /\ exit_code = exc.a
                /\ exit_code = (IF cmdline = "help" THEN 0 ELSE 2)
    /\ pc = "returned" =>
          /\ exc = NoException
          /\ exit_code = NoExit
    /\ exit_code # NoExit => (pc = "exited" \/ exc.type = "SystemExit")
    /\ cmdline # "ok" => pc \in {"start", "raised", "propagated"}
    /\ pc = "raised" =>
          Cardinality({ b \in 1..4 :
              \/ b = 1 /\ ENABLED ExceptConfigReport
              \/ b = 2 /\ ENABLED ExceptGSSError
              \/ b = 3 /\ ENABLED ExceptNoSection
              \/ b = 4 /\ ENABLED Propagate }) = 1
    /\ (pc = "raised" /\ exc.type \in {"RuntimeError", "SystemExit"}) =>
          ENABLED Propagate

C8_Witness ==
    /\ pc = "propagated"
    /\ exc.type = "SystemExit"
    /\ cmdline = "rejected"
    /\ exit_code = 2
    /\ log = <<Event("usage", "rejected", 2, 0)>>

\* C9: the email list of the configuration is used iff no --email was
\* given; with no email at all main raises ConfigError and exits with 1
\* before the team stats or any user stats are created, before any check
\* and before any header or item.
C9_NoEmailIsConfigError ==
    /\ parse_returned =>
          opt.emails = (IF emails_in = << >> THEN split(config.email)
                                             ELSE split(emails_in))
    /\ (pc = "raised" /\ ~ parse_returned
          /\ exc.type \notin {"RuntimeError", "SystemExit"}) =>
          (emails_in = << >> /\ exc.type = config.raises)
    /\ (parse_returned /\ opt.emails = << >> /\ pc # "parsed") =>
          /\ pc \in {"raised", "exited"}
          /\ exc = [type |-> "ConfigError", a |-> 0, b |-> 0]
          /\ Positions(IsReport) = {}
          /\ pc = "raised" => ENABLED ExceptConfigReport
          /\ pc = "exited" => exit_code = 1

C9_Witness ==
    /\ pc = "exited" /\ exit_code = 1
    /\ parse_returned
    /\ emails_in = << >> /\ config.email = << >>
    /\ log = <<the_banner, Event("error", "ConfigError", 0, 0)>>

\* the events of user k in the order main produces them
UserSteps(k) ==
    << (IF merge THEN Event("item", users[k], k, 1)
                 ELSE Event("header", users[k], k, 0)),
       Event("new", users[k], k, 0),
       Event("check", users[k], k, 0),
       Event("merge", users[k], k, 0),
       Event("append", users[k], k, 0) >>

RECURSIVE AllSteps(_)
AllSteps(n) == IF n = 0 THEN << >> ELSE AllSteps(n - 1) \o UserSteps(n)

RECURSIVE UserEvents(_)
UserEvents(seq) ==
    IF seq = << >> THEN << >>
    ELSE (IF IsUserEvent(Head(seq)) THEN <<Head(seq)>> ELSE << >>)
         \o UserEvents(Tail(seq))

IsPrefix(p, q) == Len(p) <= Len(q) /\ SubSeq(q, 1, Len(p)) = p

\* C10: users are processed in input order, one at a time, each by line,
\* session, check, merge, append; on return the list holds the n sessions
\* in the order of the users, the team stats have merged every session once
\* and after its check, and the pair returned does not depend on the
\* display flags.
C10_UsersInOrder ==
    LET steps == UserEvents(log)
    IN  /\ IsPrefix(steps, AllSteps(Len(users)))
        /\ pc = "returned" =>
              /\ Len(users) >= 1
              /\ steps = AllSteps(Len(users))
              /\ gathered_stats = opt.emails
              /\ team_stats = [k \in 1..Len(opt.emails) |-> k]

C10_Witness ==
    /\ pc = "returned"
    /\ Len(users) = 2 /\ users[1] # users[2]
    /\ merge /\ total /\ brief

====
